---- MODULE Spec2Model ----
(***************************************************************************)
(* The "chunk documents into passages" cell of the notebooks               *)
(* (chatbot.ipynb, langchain-using-own-model.ipynb,                        *)
(* langchain-vector-store-using-elser.ipynb):                              *)
(*                                                                         *)
(*     for doc in workplace_docs:                                          *)
(*         content.append(doc["content"])                                  *)
(*         metadata.append({"name": doc["name"], "summary": ...})          *)
(*     text_splitter = CharacterTextSplitter(chunk_size=.., chunk_overlap=..)*)
(*     docs = text_splitter.create_documents(content, metadatas=metadata)  *)
(*                                                                         *)
(* The Chunker of the notebooks is LangChain's CharacterTextSplitter with  *)
(* its default separator "\n\n"; the calls are modelled by what that class *)
(* does (split on the separator, drop empty pieces, merge pieces up to     *)
(* chunk_size, strip each chunk).  A text is a sequence of characters and  *)
(* a length is a number of characters (the length function of the two      *)
(* CharacterTextSplitter(...) cells; from_tiktoken_encoder counts tokens,  *)
(* which the model takes to be one per character).                         *)
(***************************************************************************)
EXTENDS Integers, Sequences, FiniteSets, TLC

\* ---------------------------------------------------------------- bounds
\* size of one dataset: one per record plus the characters of its content
MaxSize == 8
\* number of documents of one dataset
MaxDocs == 3
\* largest chunk_size / chunk_overlap tried
MaxChunk == 4

\* ------------------------------------------------------------ characters
NL == "\n"
Alphabet == {"a", NL}
\* str.strip() removes leading and trailing whitespace
Whitespace == {NL}
\* CharacterTextSplitter's default separator "\n\n"
separator == <<NL, NL>>

\* ------------------------------------------------- the splitter's helpers
\* re.split(separator, text): the pieces between the leftmost
\* non-overlapping occurrences of the separator; cur is the piece being read
RECURSIVE re_split(_, _)
re_split(text, cur) ==
  IF text = <<>> THEN <<cur>>
  ELSE IF Len(text) >= 2 /\ SubSeq(text, 1, 2) = separator
       THEN <<cur>> \o re_split(SubSeq(text, 3, Len(text)), <<>>)
       ELSE re_split(Tail(text), Append(cur, Head(text)))

\* mutant of split_text_with_regex: pieces of one character are dropped too
split_text_with_regex_short(text) ==
  SelectSeq(re_split(text, <<>>), LAMBDA s : Len(s) > 1)

\* _split_text_with_regex: re.split, then [s for s in splits if s != ""]
split_text_with_regex(text) ==
  SelectSeq(re_split(text, <<>>), LAMBDA s : s # <<>>)

RECURSIVE lstrip(_)
lstrip(s) == IF s # <<>> /\ Head(s) \in Whitespace THEN lstrip(Tail(s)) ELSE s

RECURSIVE rstrip(_)
rstrip(s) ==
  IF s # <<>> /\ s[Len(s)] \in Whitespace
  THEN rstrip(SubSeq(s, 1, Len(s) - 1)) ELSE s

strip(s) == rstrip(lstrip(s))

\* mutant of join: one more newline than the separator between the pieces
RECURSIVE join_wide(_)
join_wide(pieces) ==
  IF pieces = <<>> THEN <<>>
  ELSE IF Len(pieces) = 1 THEN pieces[1]
  ELSE pieces[1] \o separator \o <<NL>> \o join_wide(Tail(pieces))

\* separator.join(pieces)
RECURSIVE join(_)
join(pieces) ==
  IF pieces = <<>> THEN <<>>
  ELSE IF Len(pieces) = 1 THEN pieces[1]
  ELSE pieces[1] \o separator \o join(Tail(pieces))

\* mutant of join_docs: the chunk is not stripped
join_docs_nostrip(pieces) == join(pieces)

\* _join_docs: join, strip; the empty text stands for its None
join_docs(pieces) == strip(join(pieces))

\* mutant of SepIf: the separator's length is not counted
SepIf_none(cond) == 0

separator_len == Len(separator)
SepIf(cond) == IF cond THEN separator_len ELSE 0

\* mutant of Exceeds: a piece that fills chunk_size exactly does not fit
Exceeds_ge(total, dlen, current_doc, chunk_size) ==
  total + dlen + (IF Len(current_doc) > 0 THEN Len(separator) ELSE 0) >= chunk_size

\* "total + _len + (separator_len if len(current_doc) > 0 else 0) > chunk_size":
\* d does not fit in the chunk being built
Exceeds(total, dlen, current_doc, chunk_size) ==
  total + dlen + SepIf(Len(current_doc) > 0) > chunk_size

\* mutant of Shrink: pieces are dropped only until d fits, whatever
\* chunk_overlap is
RECURSIVE Shrink_fitOnly(_, _, _, _, _)
Shrink_fitOnly(current_doc, total, dlen, chunk_size, chunk_overlap) ==
  IF Exceeds(total, dlen, current_doc, chunk_size) /\ total > 0
  THEN Shrink_fitOnly(Tail(current_doc),
                      total - (Len(current_doc[1]) + SepIf(Len(current_doc) > 1)),
                      dlen, chunk_size, chunk_overlap)
  ELSE [current_doc |-> current_doc, total |-> total]

\* the while loop of _merge_splits: drop pieces from the front of
\* current_doc until what is kept fits chunk_overlap and leaves room for d
RECURSIVE Shrink(_, _, _, _, _)
Shrink(current_doc, total, dlen, chunk_size, chunk_overlap) ==
  IF total > chunk_overlap
     \/ (Exceeds(total, dlen, current_doc, chunk_size) /\ total > 0)
  THEN Shrink(Tail(current_doc),
              total - (Len(current_doc[1]) + SepIf(Len(current_doc) > 1)),
              dlen, chunk_size, chunk_overlap)
  ELSE [current_doc |-> current_doc, total |-> total]

\* one iteration of "for d in splits" of _merge_splits, d = splits[i].
\* current_doc always holds the pieces just before d, so a chunk is recorded
\* with the positions first..last of its pieces in splits
MergeStep(st, i, d, chunk_size, chunk_overlap) ==
  LET dlen == Len(d)
      full == Exceeds(st.total, dlen, st.current_doc, chunk_size)
      flush == full /\ Len(st.current_doc) > 0
      doc == join_docs(st.current_doc)
      docs1 == IF flush /\ doc # <<>>
               THEN Append(st.docs, [text |-> doc,
                                     first |-> i - Len(st.current_doc),
                                     last |-> i - 1])
               ELSE st.docs
      kept == IF flush
              THEN Shrink(st.current_doc, st.total, dlen, chunk_size, chunk_overlap)
              ELSE [current_doc |-> st.current_doc, total |-> st.total]
      current1 == Append(kept.current_doc, d)
  IN [docs |-> docs1,
      current_doc |-> current1,
      total |-> kept.total + dlen + SepIf(Len(current1) > 1)]

RECURSIVE MergeLoop(_, _, _, _, _)
MergeLoop(splits, i, st, chunk_size, chunk_overlap) ==
  IF i > Len(splits) THEN st
  ELSE MergeLoop(splits, i + 1,
                 MergeStep(st, i, splits[i], chunk_size, chunk_overlap),
                 chunk_size, chunk_overlap)

\* mutant of merge_chunks: the pieces left in current_doc after the loop are
\* not made a chunk
merge_chunks_noLast(splits, chunk_size, chunk_overlap) ==
  MergeLoop(splits, 1, [docs |-> <<>>, current_doc |-> <<>>, total |-> 0],
            chunk_size, chunk_overlap).docs

\* mutant of merge_chunks: the pieces left in current_doc after the loop are
\* made a chunk twice
merge_chunks_twiceLast(splits, chunk_size, chunk_overlap) ==
  LET st == MergeLoop(splits, 1,
                      [docs |-> <<>>, current_doc |-> <<>>, total |-> 0],
                      chunk_size, chunk_overlap)
      doc == join_docs(st.current_doc)
      last == [text |-> doc,
               first |-> Len(splits) + 1 - Len(st.current_doc),
               last |-> Len(splits)]
  IN IF doc # <<>> THEN st.docs \o <<last, last>> ELSE st.docs

\* _merge_splits, each chunk with the positions of its pieces
merge_chunks(splits, chunk_size, chunk_overlap) ==
  LET st == MergeLoop(splits, 1,
                      [docs |-> <<>>, current_doc |-> <<>>, total |-> 0],
                      chunk_size, chunk_overlap)
      doc == join_docs(st.current_doc)
  IN IF doc # <<>>
     THEN Append(st.docs, [text |-> doc,
                           first |-> Len(splits) + 1 - Len(st.current_doc),
                           last |-> Len(splits)])
     ELSE st.docs

\* _merge_splits: the chunks made of the pieces
merge_splits(splits, chunk_size, chunk_overlap) ==
  LET chunks == merge_chunks(splits, chunk_size, chunk_overlap)
  IN [j \in 1..Len(chunks) |-> chunks[j].text]

\* the windows of chunk_size characters cut every chunk_size - chunk_overlap
\* characters from offset o on, none after the one that reaches the end
RECURSIVE Windows(_, _, _, _)
Windows(text, o, chunk_size, chunk_overlap) ==
  LET step == IF chunk_size > chunk_overlap
              THEN chunk_size - chunk_overlap ELSE chunk_size
      hi == IF o + chunk_size < Len(text) THEN o + chunk_size ELSE Len(text)
  IN IF text = <<>> THEN <<>>
     ELSE <<SubSeq(text, o + 1, hi)>>
          \o (IF o + chunk_size >= Len(text) THEN <<>>
              ELSE Windows(text, o + step, chunk_size, chunk_overlap))

\* mutant of split_text: fixed windows, whatever the separator
split_text_windows(text, chunk_size, chunk_overlap) ==
  Windows(text, 0, chunk_size, chunk_overlap)

\* CharacterTextSplitter.split_text
split_text(text, chunk_size, chunk_overlap) ==
  merge_splits(split_text_with_regex(text), chunk_size, chunk_overlap)

\* mutant of Passages: the summary is not copied
Passages_noSummary(chunks, md) ==
  [j \in 1..Len(chunks) |-> [page_content |-> chunks[j],
                             metadata |-> [name |-> md.name]]]

\* Document(page_content=chunk, metadata=copy.deepcopy(md)) for each chunk
Passages(chunks, md) ==
  [j \in 1..Len(chunks) |-> [page_content |-> chunks[j], metadata |-> md]]

\* TextSplitter.create_documents(texts, metadatas): the passages of
\* texts[i], each with a copy of metadatas[i], for i in order
RECURSIVE create_documents_from(_, _, _, _, _)
create_documents_from(i, texts, metadatas, chunk_size, chunk_overlap) ==
  IF i > Len(texts) THEN <<>>
  ELSE Passages(split_text(texts[i], chunk_size, chunk_overlap), metadatas[i])
       \o create_documents_from(i + 1, texts, metadatas, chunk_size, chunk_overlap)

Reverse(s) == [j \in 1..Len(s) |-> s[Len(s) + 1 - j]]

\* mutant of create_documents: the passages come out last first
create_documents_reversed(texts, metadatas, chunk_size, chunk_overlap) ==
  Reverse(create_documents_from(1, texts, metadatas, chunk_size, chunk_overlap))

\* mutant of create_documents: the texts are taken last first, the
\* metadatas first first
create_documents_crossed(texts, metadatas, chunk_size, chunk_overlap) ==
  create_documents_from(1, Reverse(texts), metadatas, chunk_size, chunk_overlap)

create_documents(texts, metadatas, chunk_size, chunk_overlap) ==
  create_documents_from(1, texts, metadatas, chunk_size, chunk_overlap)

\* ------------------------------------------------------------ the dataset
Texts(n) == UNION {[1..k -> Alphabet] : k \in 0..n}

\* record i of the dataset: its content, and a name and summary of its own
Record(i, text) ==
  [content |-> text, name |-> <<"name", i>>, summary |-> <<"summary", i>>]

\* record i of a dataset when its JSON object has no "content" key
NoContent(i) == [name |-> <<"name", i>>, summary |-> <<"summary", i>>]

\* "content" is a key of the record
HasContent(doc) == "content" \in DOMAIN doc

\* the datasets of k records that continue at position i, of size at most n
RECURSIVE DatasetsFrom(_, _, _)
DatasetsFrom(i, k, n) ==
  IF k = 0 THEN {<<>>}
  ELSE IF n < 1 THEN {}
  ELSE UNION ({{<<Record(i, x)>> \o rest :
                  rest \in DatasetsFrom(i + 1, k - 1, n - 1 - Len(x))}
               : x \in Texts(n - 1)}
              \cup {{<<NoContent(i)>> \o rest :
                       rest \in DatasetsFrom(i + 1, k - 1, n - 1)}})

Datasets == UNION {DatasetsFrom(1, k, MaxSize) : k \in 0..MaxDocs}

NoSplitter == [chunk_size |-> 0, chunk_overlap |-> 0]

\* ------------------------------------------------------------------ state
VARIABLES
  pc,              \* position in the notebook: load, loop, split, done, or
                   \* where it stopped: error (ValueError), keyerror
  workplace_docs,  \* the dataset, json.loads(response.read())
  content,         \* content list
  metadata,        \* metadata list
  config,          \* the chunk_size and chunk_overlap given to the constructor
  text_splitter,   \* the splitter built from them, NoSplitter if none was
  docs,            \* the passages, create_documents' result
  address,         \* for each passage, which dict object its metadata is:
                   \* i for the dict metadata[i], larger for a dict of its own
  vector_store,    \* the passages ElasticsearchStore.from_documents indexed
  calls,           \* the calls made to Elasticsearch and the chain, in order
  chat_history,    \* the messages of the chat session, oldest first
  es,              \* the index "approx-search-demo" and the ingest pipelines
                   \* of the Elasticsearch deployment
  SHOULD_DELETE_INDEX,  \* the flag of the create-index cell
  status,          \* the HTTP status of the last response of the index API,
                   \* 0 before any, 503 when the request got no answer
  asked_k,         \* the k given to similarity_search, 0 when none was
  asked_filter,    \* the role of the filter given to it, "none" when none was
  results,         \* what similarity_search returned
  actions,         \* the actions list of the bulk example
  props,           \* the isLoading and text given to the Summary component
  rendered         \* the elements Summary returned below its header

vars == <<pc, workplace_docs, content, metadata, config, text_splitter, docs,
          address, vector_store, calls, chat_history, es, SHOULD_DELETE_INDEX,
          status, asked_k, asked_filter, results, actions, props, rendered>>

\* the names of the load and chunk cells
chunked == <<workplace_docs, content, metadata, config, text_splitter, docs,
             address>>
\* the deployment and the flag
cluster == <<es, SHOULD_DELETE_INDEX, status>>
\* the query cells
query == <<asked_k, asked_filter, results>>
\* the bulk example
demo == <<actions>>
\* the names of the notebooks' cells
notebook == <<workplace_docs, content, metadata, config, text_splitter, docs,
              address, vector_store, calls, chat_history, cluster, query,
              demo>>
\* the frontend
frontend == <<props, rendered>>

\* what the load and chunk cells leave alone
elsewhere ==
  <<vector_store, calls, chat_history, cluster, query, frontend, demo>>

\* a prop that was not passed, and a text prop that was
Undefined == [defined |-> FALSE, value |-> <<>>]
Str(s) == [defined |-> TRUE, value |-> s]

\* the mappings of an index that does not exist
NoMapping == [text_field |-> "none", dims |-> 0, similarity |-> "none"]

\* a deployment without the index and without pipelines
NoIndex ==
  [exists |-> FALSE, mappings |-> NoMapping, default_pipeline |-> "none",
   docs |-> <<>>, pipelines |-> {}]

\* no cell has run: nothing read, nothing chunked, nothing indexed, nothing
\* called, nothing said
InitCells ==
  /\ workplace_docs = <<>>
  /\ content = <<>>
  /\ metadata = <<>>
  /\ config = NoSplitter
  /\ text_splitter = NoSplitter
  /\ docs = <<>>
  /\ address = <<>>
  /\ vector_store = <<>>
  /\ calls = <<>>
  /\ chat_history = <<>>
  /\ asked_k = 0
  /\ asked_filter = "none"
  /\ results = <<>>
  /\ actions = <<>>

InitCluster ==
  /\ es = NoIndex
  /\ SHOULD_DELETE_INDEX = TRUE
  /\ status = 0

\* nothing rendered
InitFrontend ==
  /\ props = [isLoading |-> "undefined", text |-> Undefined]
  /\ rendered = <<>>

Init ==
  /\ pc = "load"
  /\ InitCells
  /\ InitCluster
  /\ InitFrontend

\* workplace_docs = json.loads(response.read())
LoadTo(datasets, next) ==
  /\ pc = "load"
  /\ \E ds \in datasets : workplace_docs' = ds
  /\ pc' = next
  /\ UNCHANGED <<content, metadata, config, text_splitter, docs, address>>
  /\ UNCHANGED elsewhere

LoadFrom(datasets) == LoadTo(datasets, "loop")

Load == LoadFrom(Datasets)

\* mutant of LoopStep: a missing content is read as the empty text
LoopStep_default ==
  /\ pc = "loop"
  /\ Len(content) < Len(workplace_docs)
  /\ LET doc == workplace_docs[Len(content) + 1]
     IN /\ content' = Append(content, IF HasContent(doc) THEN doc.content ELSE <<>>)
        /\ metadata' = Append(metadata, [name |-> doc.name, summary |-> doc.summary])
  /\ UNCHANGED <<pc, workplace_docs, config, text_splitter, docs, address>>
  /\ UNCHANGED elsewhere

\* one iteration of "for doc in workplace_docs"; doc["content"] raises
\* KeyError when the key is missing, before anything is appended, and the
\* cell stops there
LoopStep ==
  /\ pc = "loop"
  /\ Len(content) < Len(workplace_docs)
  /\ LET doc == workplace_docs[Len(content) + 1]
     IN IF HasContent(doc)
        THEN /\ content' = Append(content, doc.content)
             /\ metadata' = Append(metadata, [name |-> doc.name, summary |-> doc.summary])
             /\ pc' = pc
        ELSE /\ pc' = "keyerror"
             /\ UNCHANGED <<content, metadata>>
  /\ UNCHANGED <<workplace_docs, config, text_splitter, docs, address>>
  /\ UNCHANGED elsewhere

\* mutant of Rejects: chunk_overlap = chunk_size is rejected too
Rejects_ge(chunk_size, chunk_overlap) == chunk_overlap >= chunk_size

\* TextSplitter.__init__'s check: "Got a larger chunk overlap than chunk size"
Rejects(chunk_size, chunk_overlap) == chunk_overlap > chunk_size

\* text_splitter = CharacterTextSplitter(chunk_size=.., chunk_overlap=..)
ConstructAt(at, cs, co) ==
  /\ pc = at
  /\ Len(content) = Len(workplace_docs)
  /\ config' = [chunk_size |-> cs, chunk_overlap |-> co]
  /\ IF Rejects(cs, co)
     THEN \* ValueError: the cell stops, no splitter is bound
          /\ pc' = "error"
          /\ text_splitter' = text_splitter
     ELSE /\ pc' = "split"
          /\ text_splitter' = [chunk_size |-> cs, chunk_overlap |-> co]
  /\ UNCHANGED <<workplace_docs, content, metadata, docs, address>>
  /\ UNCHANGED elsewhere

Construct(cs, co) == ConstructAt("loop", cs, co)

MakeSplitter == \E cs \in 1..MaxChunk, co \in 0..MaxChunk : Construct(cs, co)

\* mutant of deepcopy: the object itself is returned
deepcopy_alias(object, fresh) == object

\* copy.deepcopy(_metadatas[i]): a new object, at an address not in use
deepcopy(object, fresh) == fresh

\* the dict each passage of create_documents' result has as metadata: a
\* deep copy of the dict metadatas[i] of its text
Addresses(passages, metadatas) ==
  [k \in 1..Len(passages) |->
     deepcopy(passages[k].metadata.name[2], Len(metadatas) + k)]

\* docs = text_splitter.create_documents(content, metadatas=metadata)
CreateDocuments ==
  /\ pc = "split"
  /\ docs' = create_documents(content, metadata,
                              text_splitter.chunk_size, text_splitter.chunk_overlap)
  /\ address' = Addresses(docs', metadata)
  /\ pc' = "done"
  /\ UNCHANGED <<workplace_docs, content, metadata, config, text_splitter>>
  /\ UNCHANGED elsewhere

Next == Load \/ LoopStep \/ MakeSplitter \/ CreateDocuments

Spec == Init /\ [][Next]_vars

\* ------------------------------------------- one text, one configuration
\* the same cell run on a dataset of one document of 17 characters, with
\* chunk_size 8 and chunk_overlap 4
Example == [length |-> 17, chunk_size |-> 8, chunk_overlap |-> 4]

Load17 ==
  LoadFrom({<<Record(1, x)>> : x \in [1..Example.length -> Alphabet]})

MakeSplitter84 == Construct(Example.chunk_size, Example.chunk_overlap)

Next17 == Load17 \/ LoopStep \/ MakeSplitter84 \/ CreateDocuments

Spec17 == Init /\ [][Next17]_vars

\* ------------------------------------- a passage's metadata is altered
\* the datasets of at most two documents, two smaller than the largest
FrameDatasets == UNION {DatasetsFrom(1, k, MaxSize - 2) : k \in 0..2}

LoadFrame == LoadFrom(FrameDatasets)

\* docs[k].metadata["summary"] = ..: the dict at address[k] is written, and
\* whoever holds that dict, the metadata list or a passage, sees the new value
AlterMetadata ==
  /\ pc = "done"
  /\ \E k \in 1..Len(docs) :
       LET a == address[k]
           value == <<"altered", k>>
       IN /\ docs' = [j \in 1..Len(docs) |->
                        IF address[j] = a
                        THEN [docs[j] EXCEPT !.metadata.summary = value]
                        ELSE docs[j]]
          /\ metadata' = [i \in 1..Len(metadata) |->
                            IF i = a
                            THEN [metadata[i] EXCEPT !.summary = value]
                            ELSE metadata[i]]
  /\ pc' = "altered"
  /\ UNCHANGED <<workplace_docs, content, config, text_splitter, address>>
  /\ UNCHANGED elsewhere

NextFrame ==
  LoadFrame \/ LoopStep \/ MakeSplitter \/ CreateDocuments \/ AlterMetadata

SpecFrame == Init /\ [][NextFrame]_vars

\* ---------------------------------------------------- the chatbot notebook
\* number of ask() calls of one session
MaxAsks == 3
Questions == {"q1", "q2"}
Answers == {"a1", "a2"}

\* the datasets whose documents have a content of at most one character
SmallDatasets ==
  {ds \in Datasets :
     \A i \in 1..Len(ds) : HasContent(ds[i]) /\ Len(ds[i].content) <= 1}

LoadSmall == LoadFrom(SmallDatasets)

\* mutant of ChatbotConfig: the two numbers exchanged
ChatbotConfig_swapped == [chunk_size |-> 256, chunk_overlap |-> 512]

\* CharacterTextSplitter.from_tiktoken_encoder(chunk_size=512, chunk_overlap=256)
ChatbotConfig == [chunk_size |-> 512, chunk_overlap |-> 256]
MakeSplitterChatbot ==
  Construct(ChatbotConfig.chunk_size, ChatbotConfig.chunk_overlap)

\* one call to Elasticsearch or to the chain: the operation, the request
\* it belongs to (0 the ingest, k the k-th ask), the messages given to it and
\* whether it returned (ok) or raised
Call(op, req, arg, ok) == [op |-> op, req |-> req, arg |-> arg, ok |-> ok]

\* mutant of FromDocuments: a failed ingest is issued once more
FromDocuments_retry ==
  /\ pc = "done"
  /\ \E ok1, ok2 \in BOOLEAN :
       /\ calls' = calls \o <<Call("from_documents", 0, <<>>, ok1)>>
                   \o (IF ok1 THEN <<>> ELSE <<Call("from_documents", 0, <<>>, ok2)>>)
       /\ vector_store' = IF ok1 \/ ok2 THEN docs ELSE vector_store
       /\ pc' = IF ok1 \/ ok2 THEN "chat" ELSE "failed"
  /\ UNCHANGED chunked
  /\ UNCHANGED <<chat_history, cluster, query, frontend, demo>>

\* vector_store = ElasticsearchStore.from_documents(docs, ...): one call; an
\* exception of the call leaves the cell, vector_store stays unbound
FromDocuments ==
  /\ pc = "done"
  /\ \E ok \in BOOLEAN :
       /\ calls' = Append(calls, Call("from_documents", 0, <<>>, ok))
       /\ vector_store' = IF ok THEN docs ELSE vector_store
       /\ pc' = IF ok THEN "chat" ELSE "failed"
  /\ UNCHANGED chunked
  /\ UNCHANGED <<chat_history, cluster, query, frontend, demo>>

\* HumanMessage(content=..) and AIMessage(content=..)
Human(q) == [type |-> "human", content |-> q]
AI(a) == [type |-> "ai", content |-> a]

\* the calls of one ask(), in the order the function makes them
AskOps == <<"messages", "chat", "add_user_message", "add_ai_message">>
\* the ask() calls begun so far
Asked == Len(SelectSeq(calls, LAMBDA c : c.op = "messages"))

\* mutant of Ask: the answer is added to the history before the question
Ask_answerFirst ==
  /\ pc = "chat"
  /\ Asked < MaxAsks
  /\ \E question \in Questions, answer \in Answers, failing \in 0..4 :
       LET k == Asked + 1
           made == IF failing = 0 THEN 4 ELSE failing
           args == <<<<>>, chat_history, <<AI(answer)>>, <<Human(question)>>>>
       IN /\ calls' = calls \o [i \in 1..made |->
                                  Call(AskOps[i], k, args[i], i # failing)]
          /\ chat_history' =
               chat_history
               \o (IF failing \in {0, 4} THEN <<AI(answer)>> ELSE <<>>)
               \o (IF failing = 0 THEN <<Human(question)>> ELSE <<>>)
          /\ pc' = IF failing = 0 THEN "chat" ELSE "failed"
  /\ UNCHANGED chunked
  /\ UNCHANGED <<vector_store, cluster, query, frontend, demo>>

\* ask(question, chat_history): chat_history.messages is read, the chain is
\* called with the question and those messages, then the question and the
\* answer are added to the history.  failing is the call that raises (0:
\* none); the exception leaves ask() and the cell
Ask ==
  /\ pc = "chat"
  /\ Asked < MaxAsks
  /\ \E question \in Questions, answer \in Answers, failing \in 0..4 :
       LET k == Asked + 1
           made == IF failing = 0 THEN 4 ELSE failing
           args == <<<<>>, chat_history, <<Human(question)>>, <<AI(answer)>>>>
       IN /\ calls' = calls \o [i \in 1..made |->
                                  Call(AskOps[i], k, args[i], i # failing)]
          /\ chat_history' =
               chat_history
               \o (IF failing \in {0, 4} THEN <<Human(question)>> ELSE <<>>)
               \o (IF failing = 0 THEN <<AI(answer)>> ELSE <<>>)
          /\ pc' = IF failing = 0 THEN "chat" ELSE "failed"
  /\ UNCHANGED chunked
  /\ UNCHANGED <<vector_store, cluster, query, frontend, demo>>

NextChat ==
  \/ LoadSmall \/ LoopStep \/ MakeSplitterChatbot \/ CreateDocuments
  \/ FromDocuments \/ Ask

SpecChat == Init /\ [][NextChat]_vars

\* -------------------------------------------------- the own-model notebook
PIPELINE_ID == "vectorize_workplace"
\* INDEX_MAPPING: text_field is text, vector_query_field.predicted_value a
\* dense_vector of 384 dims with l2_norm similarity
INDEX_MAPPING == [text_field |-> "text", dims |-> 384, similarity |-> "l2_norm"]
INDEX_SETTINGS == [default_pipeline |-> PIPELINE_ID]
\* some other mapping an index of that name may have been created with
OtherMapping == [text_field |-> "keyword", dims |-> 8, similarity |-> "cosine"]
\* a passage indexed by an earlier run
OldPassage ==
  [page_content |-> <<"a">>,
   metadata |-> [name |-> <<"name", 0>>, summary |-> <<"summary", 0>>]]

\* the states the deployment may be in before the notebook runs
Clusters ==
  {[NoIndex EXCEPT !.pipelines = ps] : ps \in SUBSET {PIPELINE_ID}}
  \cup [exists : {TRUE}, mappings : {INDEX_MAPPING, OtherMapping},
        default_pipeline : {"none", PIPELINE_ID},
        docs : {<<>>, <<OldPassage>>}, pipelines : SUBSET {PIPELINE_ID}]

InitIndex ==
  /\ pc = "load"
  /\ InitCells
  /\ es \in Clusters
  /\ SHOULD_DELETE_INDEX \in BOOLEAN
  /\ status = 0
  /\ InitFrontend

\* mutant of Ignored: ignore=[404]
Ignored_only404 == {404}

\* the statuses of ignore=[400, 404]
Ignored == {400, 404}

\* indices.delete(index=INDEX_NAME): 404 when there is no such index
indices_delete(e) ==
  IF e.exists
  THEN [status |-> 200,
        es |-> [e EXCEPT !.exists = FALSE, !.mappings = NoMapping,
                         !.default_pipeline = "none", !.docs = <<>>]]
  ELSE [status |-> 404, es |-> e]

\* indices.create(index=INDEX_NAME, mappings=.., settings=..): 400
\* (resource_already_exists_exception) when the index exists
indices_create(e, mappings, settings) ==
  IF e.exists
  THEN [status |-> 400, es |-> e]
  ELSE [status |-> 200,
        es |-> [e EXCEPT !.exists = TRUE, !.mappings = mappings,
                         !.default_pipeline = settings.default_pipeline,
                         !.docs = <<>>]]

\* workplace_docs = json.loads(response.read()); the pipeline cell is next
LoadOwn == LoadTo(SmallDatasets, "pipeline")

\* vector_store.client.ingest.put_pipeline(id=PIPELINE_ID, processors=[..])
PutPipeline ==
  /\ pc = "pipeline"
  /\ \E ok \in BOOLEAN :
       /\ calls' = Append(calls, Call("put_pipeline", 0, <<>>, ok))
       /\ es' = IF ok THEN [es EXCEPT !.pipelines = @ \cup {PIPELINE_ID}] ELSE es
       /\ pc' = IF ok THEN "index" ELSE "failed"
  /\ UNCHANGED chunked
  /\ UNCHANGED <<vector_store, chat_history, SHOULD_DELETE_INDEX, status, query,
                 frontend, demo>>

\* mutant of IndexExists: the index is never looked for, nor deleted
IndexExists_never ==
  /\ pc = "index"
  /\ calls' = calls
  /\ pc' = "create"
  /\ UNCHANGED chunked
  /\ UNCHANGED <<vector_store, chat_history, cluster, query, frontend, demo>>

\* if(SHOULD_DELETE_INDEX): if vector_store.client.indices.exists(..):
IndexExists ==
  /\ pc = "index"
  /\ IF SHOULD_DELETE_INDEX
     THEN \E ok \in BOOLEAN :
            /\ calls' = Append(calls, Call("exists", 0, <<>>, ok))
            /\ pc' = IF ~ok THEN "failed"
                     ELSE IF es.exists THEN "delete" ELSE "create"
     ELSE /\ calls' = calls
          /\ pc' = "create"
  /\ UNCHANGED chunked
  /\ UNCHANGED <<vector_store, chat_history, cluster, query, frontend, demo>>

\* vector_store.client.indices.delete(index=INDEX_NAME, ignore=[400, 404])
DeleteIndex ==
  /\ pc = "delete"
  /\ \E ok \in BOOLEAN :
       LET r == indices_delete(es)
           returns == ok /\ r.status \in {200} \cup Ignored
       IN /\ calls' = Append(calls, Call("delete", 0, <<>>, returns))
          /\ es' = IF ok THEN r.es ELSE es
          /\ status' = IF ok THEN r.status ELSE 503
          /\ pc' = IF returns THEN "create" ELSE "failed"
  /\ UNCHANGED chunked
  /\ UNCHANGED <<vector_store, chat_history, SHOULD_DELETE_INDEX, query, frontend,
                 demo>>

\* vector_store.client.indices.create(index=INDEX_NAME, mappings=INDEX_MAPPING,
\* settings=INDEX_SETTINGS, ignore=[400, 404])
CreateIndex ==
  /\ pc = "create"
  /\ \E ok \in BOOLEAN :
       LET r == indices_create(es, INDEX_MAPPING, INDEX_SETTINGS)
           returns == ok /\ r.status \in {200} \cup Ignored
       IN /\ calls' = Append(calls, Call("create", 0, <<>>, returns))
          /\ es' = IF ok THEN r.es ELSE es
          /\ status' = IF ok THEN r.status ELSE 503
          /\ pc' = IF returns THEN "loop" ELSE "failed"
  /\ UNCHANGED chunked
  /\ UNCHANGED <<vector_store, chat_history, SHOULD_DELETE_INDEX, query, frontend,
                 demo>>

\* CharacterTextSplitter(chunk_size=800, chunk_overlap=0)
OwnConfig == [chunk_size |-> 800, chunk_overlap |-> 0]
MakeSplitterOwn == Construct(OwnConfig.chunk_size, OwnConfig.chunk_overlap)

\* documents = ElasticsearchStore.from_documents(docs, ..,
\* index_name="approx-search-demo", ..): the passages are added to the index
FromDocumentsOwn ==
  /\ pc = "done"
  /\ \E ok \in BOOLEAN :
       /\ calls' = Append(calls, Call("from_documents", 0, <<>>, ok))
       /\ es' = IF ok THEN [es EXCEPT !.docs = @ \o docs] ELSE es
       /\ vector_store' = IF ok THEN docs ELSE vector_store
       /\ pc' = IF ok THEN "indexed" ELSE "failed"
  /\ UNCHANGED chunked
  /\ UNCHANGED <<chat_history, SHOULD_DELETE_INDEX, status, query, frontend,
                 demo>>

NextIndex ==
  \/ LoadOwn \/ PutPipeline \/ IndexExists \/ DeleteIndex \/ CreateIndex
  \/ LoopStep \/ MakeSplitterOwn \/ CreateDocuments \/ FromDocumentsOwn

SpecIndex == InitIndex /\ [][NextIndex]_vars

\* ------------------------------------------------------ the ELSER notebook
\* number of passages in the index
MaxIndexed == 11
\* similarity_search's k when none is given
DefaultK == 4
\* the k of similarity_search(.., k=10)
TenK == 10
\* values of a document's rolePermissions
Roles == {<<"demo">>, <<"manager">>}

\* CharacterTextSplitter(chunk_size=500, chunk_overlap=0)
ElserConfig == [chunk_size |-> 500, chunk_overlap |-> 0]

\* mutant of ElserMetadata: the dict of the other two notebooks
ElserMetadata_noRole(doc) == [name |-> doc.name, summary |-> doc.summary]

\* the metadata the loop of the ELSER notebook makes of a record
ElserMetadata(doc) ==
  [name |-> doc.name, summary |-> doc.summary,
   rolePermissions |-> doc.rolePermissions]

\* record i of data.json, with a content of one character
ElserRecord(i, role) ==
  [content |-> <<"a">>, name |-> <<"name", i>>, summary |-> <<"summary", i>>,
   rolePermissions |-> role]

\* the notebook has loaded a dataset, chunked it and indexed the passages
\* into an empty index "workplace_index"
InitSearch ==
  /\ pc = "indexed"
  /\ \E n \in 0..MaxIndexed : \E roles \in [1..n -> Roles] :
       /\ workplace_docs = [i \in 1..n |-> ElserRecord(i, roles[i])]
       /\ content = [i \in 1..n |-> workplace_docs[i].content]
       /\ metadata = [i \in 1..n |-> ElserMetadata(workplace_docs[i])]
  /\ config = ElserConfig
  /\ text_splitter = ElserConfig
  /\ docs = create_documents(content, metadata,
                             text_splitter.chunk_size, text_splitter.chunk_overlap)
  /\ address = Addresses(docs, metadata)
  /\ vector_store = docs
  /\ calls = <<Call("from_documents", 0, <<>>, TRUE)>>
  /\ chat_history = <<>>
  /\ es = [NoIndex EXCEPT !.exists = TRUE, !.docs = docs]
  /\ SHOULD_DELETE_INDEX = TRUE
  /\ status = 0
  /\ asked_k = 0
  /\ asked_filter = "none"
  /\ results = <<>>
  /\ actions = <<>>
  /\ InitFrontend

\* the passages of the index by decreasing score for the notebook's query;
\* the score is Elasticsearch's, the index is taken to list them in that order
Ranked(e) == e.docs

\* the role a search without filter asks for
NoFilter == "none"

\* the roles of a passage: the elements of its rolePermissions list
RolesOf(hit) ==
  {hit.metadata.rolePermissions[i] :
     i \in 1..Len(hit.metadata.rolePermissions)}

\* filter=[{"match": {"metadata.rolePermissions": role}}]: the passage has
\* the role among its rolePermissions
Matches(hit, filter) == filter = NoFilter \/ filter \in RolesOf(hit)

\* mutant of similarity_search: every hit is returned
similarity_search_all(e, k, filter) ==
  LET Test(hit) == Matches(hit, filter)
  IN SelectSeq(Ranked(e), Test)

\* mutant of similarity_search: the filter is not sent with the query
similarity_search_unfiltered(e, k, filter) ==
  LET hits == Ranked(e)
  IN SubSeq(hits, 1, IF Len(hits) < k THEN Len(hits) ELSE k)

\* ElasticsearchStore.similarity_search(query, k, filter): the search asks
\* for size k among the passages the filter matches, and each hit is
\* returned as Document(page_content, metadata) of its source
similarity_search(e, k, filter) ==
  LET Test(hit) == Matches(hit, filter)
      hits == SelectSeq(Ranked(e), Test)
  IN SubSeq(hits, 1, IF Len(hits) < k THEN Len(hits) ELSE k)

\* results = documents.similarity_search(query[, k=given][, filter=..])
Search(given, filter) ==
  /\ pc = "indexed"
  /\ \E ok \in BOOLEAN :
       /\ calls' = Append(calls, Call("similarity_search", 1, <<>>, ok))
       /\ results' = IF ok
                     THEN similarity_search(es,
                            IF given = 0 THEN DefaultK ELSE given, filter)
                     ELSE results
       /\ pc' = IF ok THEN "searched" ELSE "failed"
  /\ asked_k' = given
  /\ asked_filter' = filter
  /\ UNCHANGED chunked
  /\ UNCHANGED <<vector_store, chat_history, cluster, frontend, demo>>

\* documents.similarity_search("How does the compensation work?")
SearchDefault == Search(0, NoFilter)
\* documents.similarity_search("How does the compensation work?", k=10)
SearchTen == Search(TenK, NoFilter)
\* documents.similarity_search("How does the compensation work",
\*   filter=[{"match": {"metadata.rolePermissions": "manager"}}])
SearchFiltered == Search(0, "manager")

NextSearch == SearchDefault \/ SearchTen \/ SearchFiltered

SpecSearch == InitSearch /\ [][NextSearch]_vars

\* ------------------------------------------------- the Summary component
\* longest text prop
MaxText == 4

\* JavaScript truthiness of the two props
TruthyFlag(isLoading) == isLoading = "true"
TruthyText(t) == t.defined /\ t.value # <<>>

\* <Loader /> and <div className="text-base ...">{text}</div>
Loader == [tag |-> "Loader", children |-> <<>>]
Div(t) == [tag |-> "div", children |-> t]

\* mutant of Summary: the Loader is shown whenever isLoading is set
Summary_loaderWhileLoading(isLoading, t) ==
  (IF TruthyFlag(isLoading) THEN <<Loader>> ELSE <<>>)
  \o (IF TruthyText(t) THEN <<Div(t.value)>> ELSE <<>>)

\* Summary's two expressions below the header: {isLoading && !text &&
\* <Loader />} and {text && (<div ...>{text}</div>)}; a falsy value renders
\* nothing
Summary(isLoading, t) ==
  (IF TruthyFlag(isLoading) /\ ~TruthyText(t) THEN <<Loader>> ELSE <<>>)
  \o (IF TruthyText(t) THEN <<Div(t.value)>> ELSE <<>>)

\* the component is given its props
InitSummary ==
  /\ pc = "props"
  /\ InitCells
  /\ InitCluster
  /\ props \in [isLoading : {"undefined", "false", "true"},
                text : {Undefined} \cup {Str(s) : s \in Texts(MaxText)}]
  /\ rendered = <<>>

\* React calls Summary(props)
Render ==
  /\ pc = "props"
  /\ rendered' = Summary(props.isLoading, props.text)
  /\ pc' = "rendered"
  /\ UNCHANGED <<notebook, props>>

NextSummary == Render

SpecSummary == InitSummary /\ [][NextSummary]_vars

\* ------------------------------------------------- notions of the claims
Done == pc = "done"
TheSize == config.chunk_size
TheOverlap == config.chunk_overlap
\* a valid configuration: chunk_size >= 1, 0 <= chunk_overlap < chunk_size
ValidConfig == TheSize >= 1 /\ 0 <= TheOverlap /\ TheOverlap < TheSize

\* the text holds the separator somewhere
HasSeparator(s) == \E j \in 1..(Len(s) - 1) : SubSeq(s, j, j + 1) = separator
\* the text has a character that is not whitespace
NonBlank(s) == \E j \in 1..Len(s) : s[j] \notin Whitespace

\* the document a passage carries the metadata of (a record's name holds
\* its position in the dataset)
Idx(p) == p.metadata.name[2]
\* the texts of the passages that carry document i's metadata, in order
PassTexts(i) ==
  LET ps == SelectSeq(docs, LAMBDA p : Idx(p) = i)
  IN [j \in 1..Len(ps) |-> ps[j].page_content]

\* how many chunks create_documents makes of document i, and the document
\* whose chunks hold position k of its result
Count(i) == Len(split_text(content[i], TheSize, TheOverlap))
RECURSIVE Offset(_)
Offset(i) == IF i <= 1 THEN 0 ELSE Offset(i - 1) + Count(i - 1)
Source(k) ==
  CHOOSE i \in 1..Len(content) :
    LET o == Offset(i) IN o < k /\ k <= o + Count(i)


\* the non-empty pieces of document i, and its chunks with the positions
\* of their pieces
Pieces(i) == split_text_with_regex(content[i])
Chunks(i) == merge_chunks(Pieces(i), TheSize, TheOverlap)
\* s occurs in t as a contiguous substring
IsSubstring(s, t) ==
  \E a \in 0..(Len(t) - Len(s)) : SubSeq(t, a + 1, a + Len(s)) = s
\* the text without its first n characters
Drop(s, n) == SubSeq(s, n + 1, Len(s))
\* the text without its whitespace characters
NoWs(s) == SelectSeq(s, LAMBDA c : c \notin Whitespace)
\* content has no empty piece: it neither starts nor ends with a separator
\* and has no two adjacent separators
NoEmptyPiece(text) ==
  \A j \in 1..Len(re_split(text, <<>>)) : re_split(text, <<>>)[j] # <<>>

\* ------------------------------------------------------------------- C1
\* C1 as stated: for every valid configuration every chunk produced has
\* length <= chunk_size.
C1_EveryChunkWithinSize ==
  (Done /\ ValidConfig) =>
    \A k \in 1..Len(docs) : Len(docs[k].page_content) <= TheSize

\* C1 amended: every chunk produced has length <= chunk_size, unless it is a
\* single separator-free piece of the text that is itself longer than
\* chunk_size (such a piece is never cut).
C1_ChunkWithinSizeOrOnePiece ==
  Done =>
    \A k \in 1..Len(docs) :
      \/ Len(docs[k].page_content) <= TheSize
      \/ ~HasSeparator(docs[k].page_content)

\* a chunk of several pieces that fills chunk_size exactly, the rest of the
\* text going to another chunk
C1_Witness ==
  /\ Done /\ ValidConfig
  /\ Len(docs) >= 2
  /\ \E k \in 1..Len(docs) :
       HasSeparator(docs[k].page_content) /\ Len(docs[k].page_content) = TheSize

\* ------------------------------------------------------------------- C2
\* C2 as stated: under a valid configuration a chunk begins exactly
\* chunk_overlap units before the previous one ends (its first
\* chunk_overlap units are the previous chunk's last ones), and only the
\* final chunk of a text is shorter than chunk_size.
C2_ExactOverlap ==
  (Done /\ ValidConfig) =>
    \A i \in 1..Len(content) :
      LET t == PassTexts(i)
      IN /\ \A j \in 2..Len(t) :
              /\ Len(t[j - 1]) >= TheOverlap /\ Len(t[j]) >= TheOverlap
              /\ SubSeq(t[j], 1, TheOverlap)
                   = Drop(t[j - 1], Len(t[j - 1]) - TheOverlap)
         /\ \A j \in 1..(Len(t) - 1) : Len(t[j]) = TheSize

\* C2 amended: consecutive chunks share at most chunk_overlap units: a
\* chunk is a run of whole pieces of the text, it starts and ends later
\* than the previous chunk, and the pieces it repeats from the previous
\* chunk have joined length <= chunk_overlap; any chunk, not only the final
\* one, may be shorter than chunk_size.
C2_OverlapAtMost ==
  Done =>
    \A i \in 1..Len(content) :
      LET ch == Chunks(i)
          ps == Pieces(i)
      IN /\ PassTexts(i) = [j \in 1..Len(ch) |-> ch[j].text]
         /\ \A j \in 1..Len(ch) :
              /\ 1 <= ch[j].first /\ ch[j].first <= ch[j].last
              /\ ch[j].last <= Len(ps)
              /\ ch[j].text = strip(join(SubSeq(ps, ch[j].first, ch[j].last)))
         /\ \A j \in 2..Len(ch) :
              /\ ch[j].first > ch[j - 1].first
              /\ ch[j].last > ch[j - 1].last
              /\ Len(join(SubSeq(ps, ch[j].first, ch[j - 1].last))) <= TheOverlap

\* a chunk that repeats a piece of the previous chunk
C2_Witness ==
  /\ Done /\ ValidConfig
  /\ \E i \in 1..Len(content) :
       /\ Len(PassTexts(i)) >= 2
       /\ Chunks(i)[2].first <= Chunks(i)[1].last
       /\ Len(join(SubSeq(Pieces(i), Chunks(i)[2].first, Chunks(i)[1].last)))
            \in 1..TheOverlap

\* ------------------------------------------------------------------- C3
\* the chunks, each without its leading n units, concatenated
RECURSIVE RoundTripRest(_, _)
RoundTripRest(t, n) ==
  IF t = <<>> THEN <<>> ELSE Drop(t[1], n) \o RoundTripRest(Tail(t), n)

\* the chunks in order, each after the first without its leading n units
RoundTrip(t, n) ==
  IF t = <<>> THEN <<>> ELSE t[1] \o RoundTripRest(Tail(t), n)

\* C3 as stated: concatenating the chunks in order, each after the first
\* without its leading chunk_overlap units, gives the original text.
C3_RoundTripExact ==
  (Done /\ ValidConfig) =>
    \A i \in 1..Len(content) : RoundTrip(PassTexts(i), TheOverlap) = content[i]

\* what chunk j of document i adds to the chunks before it, whitespace
\* deleted: its text without the characters of the pieces it repeats
Added(i, j) ==
  LET ch == Chunks(i)
      repeated == IF j = 1 THEN <<>>
                  ELSE join(SubSeq(Pieces(i), ch[j].first, ch[j - 1].last))
  IN Drop(NoWs(PassTexts(i)[j]), Len(NoWs(repeated)))

RECURSIVE AddedUpTo(_, _)
AddedUpTo(i, j) == IF j = 0 THEN <<>> ELSE AddedUpTo(i, j - 1) \o Added(i, j)

\* C3 amended: concatenating the chunks in order, each after the first
\* without the pieces it repeats from the previous chunk, gives the
\* original text up to separators and whitespace: the two are equal once
\* every whitespace character is deleted (no other character is lost,
\* duplicated or reordered).
C3_RoundTripUpToWhitespace ==
  Done =>
    \A i \in 1..Len(content) :
      /\ Len(PassTexts(i)) = Len(Chunks(i))
      /\ AddedUpTo(i, Len(PassTexts(i))) = NoWs(content[i])

\* a text cut into three chunks, with pieces repeated between them
C3_Witness ==
  /\ Done /\ ValidConfig /\ TheOverlap >= 1
  /\ \E i \in 1..Len(content) :
       /\ Len(PassTexts(i)) >= 2
       /\ Chunks(i)[2].first <= Chunks(i)[1].last
       /\ RoundTrip(PassTexts(i), TheOverlap) # content[i]

\* ------------------------------------------------------------------- C4
\* C4 as stated: the text of every passage is a contiguous substring of the
\* content of the one document it was cut from.
C4_PassageIsSubstring ==
  Done =>
    \A k \in 1..Len(docs) :
      IsSubstring(docs[k].page_content, content[Source(k)])

\* C4 amended: the text of every passage is made of consecutive non-empty
\* pieces of the content of the one document it was cut from, joined by the
\* separator and stripped, so it holds no text of another document; it is
\* a contiguous substring of that content when the content has no empty
\* piece (no two adjacent separators, none at its start or end).
C4_PassageIsRunOfPieces ==
  Done =>
    \A k \in 1..Len(docs) :
      LET i == Source(k)
          ps == Pieces(i)
      IN /\ \E a, b \in 1..Len(ps) :
              /\ a <= b
              /\ docs[k].page_content = strip(join(SubSeq(ps, a, b)))
         /\ NoEmptyPiece(content[i]) =>
              IsSubstring(docs[k].page_content, content[i])

\* a passage over two pieces that two adjacent separators keep apart in
\* the content, in a batch with another document
C4_Witness ==
  /\ Done /\ Len(content) >= 2
  /\ \E k \in 1..Len(docs) :
       /\ HasSeparator(docs[k].page_content)
       /\ ~IsSubstring(docs[k].page_content, content[Source(k)])

\* ------------------------------------------------------------------- C5
\* C5: every passage carries exactly the metadata of the document it was
\* cut from: that record's name and summary, no other field, no other
\* document's values.
C5_MetadataOfSource ==
  Done =>
    \A k \in 1..Len(docs) :
      LET i == Source(k)
      IN docs[k].metadata = [name |-> workplace_docs[i].name,
                             summary |-> workplace_docs[i].summary]

\* two documents with passages, one of them cut into several
C5_Witness ==
  /\ Done
  /\ \E i, j \in 1..Len(content) :
       i # j /\ Len(PassTexts(i)) >= 2 /\ Len(PassTexts(j)) >= 1

\* ------------------------------------------------------------------- C6
\* C6 as stated: a constructor call with chunk_overlap >= chunk_size fails
\* and produces no passage.
C6_RejectsOverlapAtLeastSize ==
  (config # NoSplitter /\ TheOverlap >= TheSize) => (pc = "error" /\ docs = <<>>)

\* C6 amended: the call fails exactly when chunk_overlap > chunk_size
\* (chunk_overlap = chunk_size is accepted); it fails in the constructor,
\* before any document is processed, so no splitter and no passage exists.
C6_RejectsOverlapAboveSize ==
  config # NoSplitter =>
    /\ (pc = "error") <=> (TheOverlap > TheSize)
    /\ pc = "error" => (docs = <<>> /\ text_splitter = NoSplitter)

\* the constructor failed on a dataset that has documents to process
C6_Witness == pc = "error" /\ Len(content) >= 1 /\ TheOverlap > TheSize

\* ------------------------------------------------------------------- C7
\* C7: the passages come in document order, those of one document in chunk
\* order; three documents of one chunk each give exactly 3 passages, in
\* input order.
C7_OrderPreserved ==
  Done =>
    /\ \A k, l \in 1..Len(docs) : k < l => Idx(docs[k]) <= Idx(docs[l])
    /\ \A i \in 1..Len(content) :
         PassTexts(i) = split_text(content[i], TheSize, TheOverlap)
    /\ (Len(content) = 3 /\ \A i \in 1..3 : Count(i) = 1) =>
         /\ Len(docs) = 3
         /\ \A i \in 1..3 : docs[i].metadata = metadata[i]

\* three documents of one chunk each, of different texts
C7_Witness ==
  /\ Done /\ Len(content) = 3 /\ Len(docs) = 3
  /\ \A i \in 1..3 : Count(i) = 1
  /\ docs[1].page_content # docs[2].page_content

\* ------------------------------------------------------------------- C8
\* the text has no leading or trailing whitespace, is not empty and has no
\* two adjacent separators
Clean(text) ==
  /\ text # <<>>
  /\ strip(text) = text
  /\ \A j \in 1..Len(re_split(text, <<>>)) : re_split(text, <<>>)[j] # <<>>

\* C8 as stated: a text of length <= chunk_size gives a single chunk equal
\* to the text.
C8_ShortTextIsOneChunk ==
  Done =>
    \A i \in 1..Len(content) :
      Len(content[i]) <= TheSize => PassTexts(i) = <<content[i]>>

\* C8 amended: a text of length <= chunk_size gives at most one chunk; the
\* chunk is the whole text when the text is not empty, neither starts nor
\* ends with whitespace and has no two adjacent separators.
C8_ShortCleanTextIsOneChunk ==
  Done =>
    \A i \in 1..Len(content) :
      Len(content[i]) <= TheSize =>
        /\ Len(PassTexts(i)) <= 1
        /\ Clean(content[i]) => PassTexts(i) = <<content[i]>>

\* a text with a separator inside that exactly fits chunk_size
C8_Witness ==
  /\ Done
  /\ \E i \in 1..Len(content) :
       /\ Len(content[i]) = TheSize /\ Clean(content[i])
       /\ HasSeparator(content[i])
       /\ PassTexts(i) = <<content[i]>>

\* ------------------------------------------------------------------- C9
\* C9 as stated: an empty content gives 0 passages, every non-empty content
\* at least 1.
C9_EmptyZeroNonEmptySome ==
  Done =>
    \A i \in 1..Len(content) :
      /\ content[i] = <<>> => Len(PassTexts(i)) = 0
      /\ content[i] # <<>> => Len(PassTexts(i)) >= 1

\* C9 amended: an empty content gives 0 passages, and so does a content of
\* whitespace only; every content with a non-whitespace character gives at
\* least 1.
C9_BlankZeroNonBlankSome ==
  Done =>
    \A i \in 1..Len(content) :
      /\ ~NonBlank(content[i]) => Len(PassTexts(i)) = 0
      /\ NonBlank(content[i]) => Len(PassTexts(i)) >= 1

\* an empty document, a whitespace-only one and one with text in one batch
C9_Witness ==
  /\ Done
  /\ \E i, j, l \in 1..Len(content) :
       /\ content[i] = <<>> /\ Len(PassTexts(i)) = 0
       /\ content[j] # <<>> /\ ~NonBlank(content[j]) /\ Len(PassTexts(j)) = 0
       /\ NonBlank(content[l]) /\ Len(PassTexts(l)) >= 1

\* ------------------------------------------------------------------ C10
\* C10 as stated: len(output) >= len(input).
C10_AtLeastOnePerDocument == Done => Len(docs) >= Len(workplace_docs)

\* C10 amended: the number of passages is at least the number of input
\* documents whose content has a non-whitespace character.
C10_AtLeastOnePerNonBlank ==
  Done => Len(docs) >= Cardinality({i \in 1..Len(content) : NonBlank(content[i])})

\* fewer passages than documents, one passage per non-blank document
C10_Witness ==
  /\ Done
  /\ Len(docs) < Len(workplace_docs)
  /\ Len(docs) >= 1
  /\ Len(docs) = Cardinality({i \in 1..Len(content) : NonBlank(content[i])})

RECURSIVE Concat(_)
Concat(chunks) ==
  IF chunks = <<>> THEN <<>> ELSE Head(chunks) \o Concat(Tail(chunks))

\* C13 as stated: with chunk_overlap = 0, chunking the concatenation of a
\* text's chunks again with the same chunk_size gives the same chunks in the
\* same order, and chunking one produced chunk gives that chunk alone.
C13_RechunkReproducesPartition ==
  Done /\ ValidConfig /\ TheOverlap = 0 =>
    \A i \in 1..Len(content) :
      LET pt == PassTexts(i)
      IN /\ split_text(Concat(pt), TheSize, TheOverlap) = pt
         /\ \A j \in 1..Len(pt) :
              split_text(pt[j], TheSize, TheOverlap) = <<pt[j]>>

\* C13 amended: with chunk_overlap = 0, chunking one produced chunk with the
\* same chunk_size gives that chunk alone, unchanged.
C13_RechunkOfOneChunk ==
  Done /\ ValidConfig /\ TheOverlap = 0 =>
    \A i \in 1..Len(content) :
      \A j \in 1..Len(PassTexts(i)) :
        split_text(PassTexts(i)[j], TheSize, TheOverlap) = <<PassTexts(i)[j]>>

\* the chunks of a text at chunk_overlap 0 whose concatenation chunks
\* differently, and one of them, made of two pieces, that chunks to itself
C13_Witness ==
  /\ Done /\ ValidConfig /\ TheOverlap = 0
  /\ \E i \in 1..Len(content) :
       LET pt == PassTexts(i)
       IN /\ Len(pt) >= 2
          /\ HasSeparator(pt[1])
          /\ split_text(pt[1], TheSize, TheOverlap) = <<pt[1]>>
          /\ split_text(Concat(pt), TheSize, TheOverlap) # pt

\* ------------------------------------------------------------------ C14
\* C14 as stated: a document whose content field is missing is skipped; it
\* does not abort the batch.
C14_MalformedIsSkipped ==
  \A i \in 1..Len(workplace_docs) :
    ~HasContent(workplace_docs[i]) => pc # "keyerror"

\* C14 amended: the loop stops with KeyError at the first document whose
\* content field is missing: the documents before it have been appended to
\* content and metadata, no splitter is built and no passage is produced for
\* any document; the cell gets past the loop only when every document has a
\* content field.  A document whose content is empty stops nothing: it
\* yields no passage and every document is chunked.
C14_MissingContentAborts ==
  /\ pc = "keyerror" =>
       /\ Len(content) < Len(workplace_docs)
       /\ ~HasContent(workplace_docs[Len(content) + 1])
       /\ \A j \in 1..Len(content) :
            HasContent(workplace_docs[j]) /\ content[j] = workplace_docs[j].content
       /\ Len(metadata) = Len(content)
       /\ config = NoSplitter /\ text_splitter = NoSplitter /\ docs = <<>>
  /\ pc \in {"split", "done", "error"} =>
       \A i \in 1..Len(workplace_docs) : HasContent(workplace_docs[i])
  /\ Done =>
       \A i \in 1..Len(content) :
         /\ PassTexts(i) = split_text(content[i], TheSize, TheOverlap)
         /\ content[i] = <<>> => PassTexts(i) = <<>>

\* the loop stopped at a document without content that has a document with
\* text before it and a document with text after it
C14_Witness ==
  /\ pc = "keyerror"
  /\ Len(content) >= 1 /\ NonBlank(content[1])
  /\ Len(workplace_docs) > Len(content) + 1
  /\ HasContent(workplace_docs[Len(workplace_docs)])
  /\ NonBlank(workplace_docs[Len(workplace_docs)].content)

\* ------------------------------------------------------------------ C15
\* C15: a call to the ingest or to the chain that raises ends the run there
\* (the failure reaches the caller, nothing is called after it), and no
\* call is issued twice for the same request.
C15_FailurePropagatesNoRetry ==
  /\ \A i \in 1..Len(calls) :
       ~calls[i].ok => i = Len(calls) /\ pc = "failed"
  /\ pc = "failed" => calls # <<>> /\ ~calls[Len(calls)].ok
  /\ \A i, j \in 1..Len(calls) :
       calls[i].op = calls[j].op /\ calls[i].req = calls[j].req => i = j
  /\ ~(\E i \in 1..Len(calls) : calls[i].op = "from_documents" /\ calls[i].ok)
       => vector_store = <<>>

\* the chain of the second ask() raised after an ingest and an ask() that
\* went through
C15_Witness ==
  /\ pc = "failed"
  /\ Len(docs) >= 2 /\ vector_store = docs
  /\ Len(calls) = 7
  /\ calls[7].op = "chat" /\ ~calls[7].ok /\ calls[7].req = 2
  /\ Len(chat_history) = 2

\* ------------------------------------------------------------------ C17
\* what the j-th ask() added to the history: the messages given to its
\* add_user_message and add_ai_message calls
AddedBy(j) ==
  LET cs == SelectSeq(calls, LAMBDA c : c.req = j /\ c.ok
                             /\ c.op \in {"add_user_message", "add_ai_message"})
  IN Concat([i \in 1..Len(cs) |-> cs[i].arg])
\* the question/answer pairs of the first k ask() calls
RECURSIVE PairsUpTo(_)
PairsUpTo(k) == IF k = 0 THEN <<>> ELSE PairsUpTo(k - 1) \o AddedBy(k)

\* C17: the chain of the k-th ask() is given exactly the k - 1 earlier
\* question/answer pairs, and after k ask() calls the history holds 2k
\* messages, human and ai in turn, in the order of the calls.
C17_HistoryGrowsByPairs ==
  /\ \A i \in 1..Len(calls) :
       calls[i].op = "chat" =>
         /\ Len(calls[i].arg) = 2 * (calls[i].req - 1)
         /\ calls[i].arg = PairsUpTo(calls[i].req - 1)
  /\ pc = "chat" =>
       /\ Len(chat_history) = 2 * Asked
       /\ chat_history = PairsUpTo(Asked)
       /\ \A j \in 1..Len(chat_history) :
            chat_history[j].type = (IF j % 2 = 1 THEN "human" ELSE "ai")

\* three ask() calls went through, the third one's chain was given the
\* four messages of the first two
C17_Witness ==
  /\ pc = "chat"
  /\ Asked = 3
  /\ Len(chat_history) = 6
  /\ \E i \in 1..Len(calls) :
       /\ calls[i].op = "chat" /\ calls[i].req = 3
       /\ calls[i].arg = SubSeq(chat_history, 1, 4)
       /\ calls[i].arg[1] # calls[i].arg[3]

\* ------------------------------------------------------------------ C16
\* the view states of the rendered component
Loading == rendered = <<Loader>>
Loaded == rendered = <<Div(props.text.value)>>
Idle == rendered = <<>>

\* C16: Summary shows the Loader and no text exactly when isLoading is true
\* and text is empty or undefined, the text exactly when text is non-empty,
\* and neither otherwise; never the Loader together with the text.
C16_ViewStates ==
  pc = "rendered" =>
    LET noText == ~props.text.defined \/ props.text.value = <<>>
    IN /\ Loading <=> props.isLoading = "true" /\ noText
       /\ Loaded <=> ~noText
       /\ Idle <=> props.isLoading # "true" /\ noText
       /\ Loading \/ Loaded \/ Idle
       /\ ~(\E i, j \in 1..Len(rendered) :
              rendered[i].tag = "Loader" /\ rendered[j].tag = "div")

\* isLoading is true and there is a text already: the text, no Loader
C16_Witness ==
  /\ pc = "rendered"
  /\ props.isLoading = "true"
  /\ props.text.defined /\ Len(props.text.value) >= 2
  /\ Loaded /\ ~Loading

\* ------------------------------------------------------------------ C18
\* the create call of the create-index cell has returned
PastCreate == \E i \in 1..Len(calls) : calls[i].op = "create" /\ calls[i].ok
\* the place of a call in the notebook
Rank(op) ==
  CASE op = "put_pipeline" -> 1 [] op = "exists" -> 2 [] op = "delete" -> 3
    [] op = "create" -> 4 [] op = "from_documents" -> 5 [] OTHER -> 6

\* C18: with SHOULD_DELETE_INDEX true, whatever index there was before, once
\* the create-index cell has run the index exists with INDEX_MAPPING and its
\* default pipeline is PIPELINE_ID, a pipeline that exists; the calls are
\* made in the order put_pipeline, delete if the index existed, create,
\* from_documents, after which the index holds the passages and nothing else.
C18_IndexRecreated ==
  /\ SHOULD_DELETE_INDEX /\ PastCreate =>
       /\ es.exists
       /\ es.mappings = INDEX_MAPPING
       /\ es.default_pipeline = PIPELINE_ID
       /\ PIPELINE_ID \in es.pipelines
       /\ pc = "indexed" => es.docs = docs
  /\ \A i, j \in 1..Len(calls) :
       i < j => Rank(calls[i].op) < Rank(calls[j].op)

\* an index that existed was deleted and created again, and the passages
\* were indexed into it
C18_Witness ==
  /\ SHOULD_DELETE_INDEX /\ pc = "indexed"
  /\ Len(calls) = 5
  /\ calls[3].op = "delete" /\ calls[3].ok
  /\ es.mappings = INDEX_MAPPING
  /\ Len(docs) >= 2 /\ es.docs = docs

\* ------------------------------------------------------------------ C19
\* C19: similarity_search returns at most k passages, best first, k being 4
\* when none is given and 10 when k=10 is passed; each passage returned is a
\* passage of the index, with the metadata it was indexed with.
C19_AtMostK ==
  pc = "searched" =>
    LET k == IF asked_k = 0 THEN 4 ELSE asked_k
    IN /\ asked_k \in {0, 10}
       /\ Len(results) <= k
       /\ asked_filter = NoFilter =>
            /\ Len(results) = k \/ Len(results) = Len(vector_store)
            /\ \A j \in 1..Len(results) : results[j] = Ranked(es)[j]
       /\ \A j \in 1..Len(results) :
            /\ \E i \in 1..Len(vector_store) :
                 /\ results[j].metadata = vector_store[i].metadata
                 /\ results[j].page_content = vector_store[i].page_content

\* 11 passages are indexed and similarity_search(k=10) returned 10
C19_Witness ==
  /\ pc = "searched"
  /\ asked_k = 10
  /\ Len(vector_store) = 11
  /\ Len(results) = 10
  /\ results[10].metadata = vector_store[10].metadata

\* ------------------------------------------------------------------ C20
\* C20: chunking leaves the documents, the content list and the metadata
\* list as they were, and altering the metadata of one passage afterwards
\* changes neither the metadata list nor the metadata of another passage.
C20_InputsUnchanged ==
  pc \in {"split", "done", "altered"} =>
    /\ Len(content) = Len(workplace_docs)
    /\ Len(metadata) = Len(workplace_docs)
    /\ \A i \in 1..Len(workplace_docs) :
         /\ content[i] = workplace_docs[i].content
         /\ metadata[i] = [name |-> workplace_docs[i].name,
                           summary |-> workplace_docs[i].summary]
    /\ pc = "altered" =>
         \E k \in 1..Len(docs) :
           /\ docs[k].metadata.summary = <<"altered", k>>
           /\ \A j \in 1..Len(docs) :
                j # k => docs[j].metadata = metadata[Idx(docs[j])]

\* the summary of one of two passages of the same document was altered
C20_Witness ==
  /\ pc = "altered"
  /\ \E k, j \in 1..Len(docs) :
       /\ k # j
       /\ Idx(docs[k]) = Idx(docs[j])
       /\ docs[k].metadata.summary = <<"altered", k>>
       /\ docs[j].metadata.summary = workplace_docs[Idx(docs[j])].summary

\* ------------------------------------------------------------------ C21
\* C21 as stated: each chunk starts chunk_size - chunk_overlap units after
\* the one before, so a text has as many chunks as windows cut at that
\* stride, and at most as many as it has characters.
C21_OneChunkPerStride ==
  Done /\ ValidConfig =>
    \A i \in 1..Len(content) :
      /\ Len(PassTexts(i)) = Len(Windows(content[i], 0, TheSize, TheOverlap))
      /\ Len(PassTexts(i)) <= Len(content[i])

\* C21 amended: for every text and every accepted configuration
\* (chunk_overlap <= chunk_size) the Chunker returns, and the number of
\* chunks is at most the number of non-empty pieces of the text, hence at
\* most its length: each chunk ends at a later piece than the one before.
C21_AtMostOneChunkPerPiece ==
  Done =>
    \A i \in 1..Len(content) :
      LET ch == Chunks(i)
          n == Len(Pieces(i))
      IN /\ Len(PassTexts(i)) = Len(ch)
         /\ Len(ch) <= n
         /\ n <= Len(content[i])
         /\ \A j \in 1..Len(ch) :
              /\ 1 <= ch[j].first /\ ch[j].first <= ch[j].last /\ ch[j].last <= n
              /\ j < Len(ch) => ch[j].last < ch[j + 1].last

\* a text of two pieces came out as two chunks, where the stride gives three
C21_Witness ==
  /\ Done /\ ValidConfig
  /\ \E i \in 1..Len(content) :
       /\ Len(Pieces(i)) = 2 /\ Len(PassTexts(i)) = 2
       /\ Len(Windows(content[i], 0, TheSize, TheOverlap)) = 3

\* ------------------------------------------------------------------
\* The load and chunk cells of the three notebooks: the chatbot and the
\* own-model notebook share one loop, the ELSER notebook's loop also reads
\* doc["rolePermissions"].

\* "rolePermissions" is a key of the record
HasRole(doc) == "rolePermissions" \in DOMAIN doc

\* record i of a dataset read by the ELSER notebook: complete, without
\* "rolePermissions", or without "content"
ElserRecordsAt(i) ==
  {ElserRecord(i, role) : role \in Roles}
    \cup {Record(i, <<"a">>), NoContent(i)}

ElserDatasets ==
  {<<>>} \cup {<<r>> : r \in ElserRecordsAt(1)}
         \cup {<<r, q>> : r \in ElserRecordsAt(1), q \in ElserRecordsAt(2)}

LoadElser == LoadTo(ElserDatasets, "loop_elser")

\* one iteration of "for doc in workplace_docs" of the ELSER notebook:
\* content.append comes first, so a record without "rolePermissions" has
\* its content appended before the KeyError
LoopStepElser ==
  /\ pc = "loop_elser"
  /\ Len(metadata) < Len(workplace_docs)
  /\ LET doc == workplace_docs[Len(metadata) + 1]
     IN IF ~HasContent(doc)
        THEN /\ pc' = "keyerror"
             /\ UNCHANGED <<content, metadata>>
        ELSE IF ~HasRole(doc)
        THEN /\ content' = Append(content, doc.content)
             /\ metadata' = metadata
             /\ pc' = "keyerror"
        ELSE /\ content' = Append(content, doc.content)
             /\ metadata' = Append(metadata, ElserMetadata(doc))
             /\ pc' = pc
  /\ UNCHANGED <<workplace_docs, config, text_splitter, docs, address>>
  /\ UNCHANGED elsewhere

\* text_splitter = CharacterTextSplitter(chunk_size=500, chunk_overlap=0)
MakeSplitterElser ==
  ConstructAt("loop_elser", ElserConfig.chunk_size, ElserConfig.chunk_overlap)

NextLoops ==
  \/ LoadFrame
  \/ LoopStep
  \/ MakeSplitterChatbot
  \/ MakeSplitterOwn
  \/ LoadElser
  \/ LoopStepElser
  \/ MakeSplitterElser
  \/ CreateDocuments

SpecLoops == Init /\ [][NextLoops]_vars

\* the loop of a chunk cell has run to its end
LoopOver == pc \in {"split", "done", "error"}

\* ------------------------------------------------------------------ C22
\* C22: in every notebook, when the loop is over and the passages are about
\* to be made, content and metadata are as long as the dataset, content[i]
\* is record i's text and metadata[i] holds exactly record i's name and
\* summary, and its rolePermissions too in the ELSER notebook. While the
\* loop runs the two lists are equally long and aligned so far.
C22_ContentMetadataAligned ==
  /\ LoopOver => Len(content) = Len(workplace_docs)
  /\ pc \in {"loop", "loop_elser"} \cup {"split", "done", "error"} =>
       /\ Len(metadata) = Len(content)
       /\ Len(content) <= Len(workplace_docs)
       /\ \A i \in 1..Len(content) :
            LET doc == workplace_docs[i]
            IN /\ content[i] = doc.content
               /\ metadata[i].name = doc.name
               /\ metadata[i].summary = doc.summary
               /\ IF pc = "loop_elser" \/ (LoopOver /\ config = ElserConfig)
                  THEN /\ DOMAIN metadata[i] = {"name", "summary", "rolePermissions"}
                       /\ metadata[i].rolePermissions = doc.rolePermissions
                  ELSE DOMAIN metadata[i] = {"name", "summary"}

\* the ELSER loop is over on two records of different roles
C22_Witness ==
  /\ pc = "split" /\ config = ElserConfig
  /\ Len(workplace_docs) = 2 /\ Len(metadata) = 2
  /\ metadata[1].rolePermissions # metadata[2].rolePermissions

C26_OnlyManagerAtMostK ==
  pc = "searched" /\ asked_filter = "manager" =>
    /\ asked_k = 0
    /\ Len(results) <= DefaultK
    /\ \A j \in 1..Len(results) :
         \E i \in 1..Len(results[j].metadata.rolePermissions) :
           results[j].metadata.rolePermissions[i] = "manager"
    /\ LET managers == {i \in 1..Len(es.docs) :
                          es.docs[i].metadata.rolePermissions = <<"manager">>}
       IN /\ Len(results) = IF Cardinality(managers) < DefaultK
                            THEN Cardinality(managers) ELSE DefaultK
          /\ \A j \in 1..Len(results) :
               \E i \in managers :
                 /\ results[j] = es.docs[i]
                 /\ Cardinality({h \in managers : h < i}) = j - 1

\* the filtered search returned four passages of an index that holds more
\* than four manager passages and, among its first four, a demo passage
C26_Witness ==
  /\ pc = "searched" /\ asked_filter = "manager"
  /\ Len(results) = DefaultK
  /\ Cardinality({i \in 1..Len(es.docs) :
                    es.docs[i].metadata.rolePermissions = <<"manager">>}) > DefaultK
  /\ \E i \in 1..DefaultK : es.docs[i].metadata.rolePermissions = <<"demo">>

\* ------------------------------------------------------------------ C25
\* the last call made
LastCall == calls[Len(calls)]
\* this step makes the call op
Issues(op) ==
  /\ Len(calls') = Len(calls) + 1
  /\ calls'[Len(calls')].op = op

\* a failure is never one of a 400 or a 404, and with the flag false
\* nothing is looked up or deleted
NoFailureOnIgnored ==
  /\ (pc = "failed" /\ calls # <<>> /\ LastCall.op \in {"delete", "create"})
       => status \notin Ignored
  /\ ~SHOULD_DELETE_INDEX =>
       \A i \in 1..Len(calls) : calls[i].op \notin {"exists", "delete"}

\* delete is called on an existing index with the flag true; create, when
\* answered for an existing index, is answered 400 and changes nothing
IgnoredStep ==
  /\ Issues("delete") => SHOULD_DELETE_INDEX /\ es.exists
  /\ (Issues("create") /\ es.exists /\ status' # 503) =>
       /\ ~SHOULD_DELETE_INDEX
       /\ status' = 400
       /\ es' = es
       /\ pc' = "loop"

\* C25: the create-index cell never fails on a 400 or a 404. With
\* SHOULD_DELETE_INDEX false nothing is looked up or deleted, and when the
\* index exists the create call is answered 400, which is ignored: the cell
\* goes on and the index, its mapping and its documents are as before. The
\* delete call is made only when SHOULD_DELETE_INDEX is true and the index
\* exists.
C25_IgnoredStatusesNeverFail == []NoFailureOnIgnored /\ [][IgnoredStep]_vars

\* the flag is false, the create call was answered 400 and the cell is
\* over; the index still has the other mapping and the old passage
C25_Witness ==
  /\ ~SHOULD_DELETE_INDEX
  /\ pc = "loop" /\ status = 400
  /\ calls # <<>> /\ LastCall.op = "create" /\ LastCall.ok
  /\ es.exists /\ es.mappings = OtherMapping /\ es.docs = <<OldPassage>>

\* ------------------------------------------------------------------
\* The examples of the page "Indexing data": an index "demo" is created,
\* one document is inserted with es.index and a list of documents with the
\* bulk helper. Each example is a snippet of its own: one that raises does
\* not keep the next from being run. Vector values are written in tenths.

\* "dims": 8
dims == 8
\* longest docs list of the bulk example
MaxBulk == 3

\* a vector of n values v
Vector(v, n) == [i \in 1..n |-> v]
\* {"text": [v, .., v], "title": "Document t"}, the vector of n values
Document(t, v, n) == [text |-> Vector(v, n), title |-> <<"Document", t>>]

\* doc of the single-document example: seven values 0.5
doc1 == Document(1, 5, 7)
\* docs of the bulk example: eight values each
ExampleDocs == <<Document(1, 5, 8), Document(2, 4, 8), Document(3, 3, 8)>>

\* the docs lists the bulk example is run on: "Document i" at position i,
\* its vector of 0.3, 0.4 or 0.5, of dims values or one fewer
BulkLists ==
  UNION {{[i \in 1..k |-> Document(i, f[i][1], f[i][2])] :
            f \in [1..k -> {3, 4, 5} \X {dims - 1, dims}]}
         : k \in 0..MaxBulk}

\* mappings of the first create example: "text" a dense_vector of 8 dims
DemoMapping == [text_field |-> "text", dims |-> dims, similarity |-> "cosine"]
\* mappings of the second create example: title and price, no dense_vector
TitlePriceMapping == [text_field |-> "title", dims |-> 0, similarity |-> "none"]
\* no settings are given
NoSettings == [default_pipeline |-> "none"]

\* Elasticsearch indexes a document: 201, or 400 when its "text" is mapped
\* as a dense_vector and has another number of values than dims
index_doc(e, d) ==
  IF e.mappings.dims \in {0, Len(d.text)}
  THEN [status |-> 201, es |-> [e EXCEPT !.docs = Append(@, d)]]
  ELSE [status |-> 400, es |-> e]

\* the bulk request: the actions are taken in order, each on its own; the
\* index after the actions from i on, and the number of them that failed
RECURSIVE bulk_items(_, _, _)
bulk_items(e, acts, i) ==
  IF i > Len(acts) THEN [es |-> e, errors |-> 0]
  ELSE LET r == index_doc(e, acts[i]._source)
           rest == bulk_items(r.es, acts, i + 1)
       IN [es |-> rest.es,
           errors |-> rest.errors + (IF r.status = 201 THEN 0 ELSE 1)]

InitDemo ==
  /\ pc = "demo_create"
  /\ InitCells
  /\ InitCluster
  /\ InitFrontend

\* es.indices.create(index="demo", mappings=..)
CreateDemo(mappings) ==
  /\ pc = "demo_create"
  /\ \E ok \in BOOLEAN :
       LET r == indices_create(es, mappings, NoSettings)
           returns == ok /\ r.status = 200
       IN /\ calls' = Append(calls, Call("create", 0, <<>>, returns))
          /\ es' = IF ok THEN r.es ELSE es
          /\ status' = IF ok THEN r.status ELSE 503
          /\ pc' = IF returns THEN "demo_index" ELSE "failed"
  /\ UNCHANGED chunked
  /\ UNCHANGED <<vector_store, chat_history, SHOULD_DELETE_INDEX, query, frontend,
                 demo>>

CreateDemoVector == CreateDemo(DemoMapping)
CreateDemoTitlePrice == CreateDemo(TitlePriceMapping)

\* es.index(index="demo", document=doc): raises when the answer is a 400
IndexDoc ==
  /\ pc = "demo_index"
  /\ \E ok \in BOOLEAN :
       LET r == index_doc(es, doc1)
       IN /\ calls' = Append(calls, Call("index", 0, <<doc1>>, ok /\ r.status = 201))
          /\ es' = IF ok THEN r.es ELSE es
          /\ status' = IF ok THEN r.status ELSE 503
  /\ pc' = "demo_docs"
  /\ UNCHANGED chunked
  /\ UNCHANGED <<vector_store, chat_history, SHOULD_DELETE_INDEX, query, frontend,
                 demo>>

\* docs = [..]; actions = []
BindDocs ==
  /\ pc = "demo_docs"
  /\ \E ds \in BulkLists : docs' = ds
  /\ actions' = <<>>
  /\ pc' = "demo_loop"
  /\ UNCHANGED <<workplace_docs, content, metadata, config, text_splitter, address>>
  /\ UNCHANGED <<vector_store, calls, chat_history, cluster, query, frontend>>

\* mutant of ActionStep: the action is put at the head of the list
ActionStep_prepend ==
  /\ pc = "demo_loop"
  /\ Len(actions) < Len(docs)
  /\ actions' = <<[_index |-> "demo", _source |-> docs[Len(actions) + 1]]>>
                   \o actions
  /\ UNCHANGED <<pc, chunked>>
  /\ UNCHANGED <<vector_store, calls, chat_history, cluster, query, frontend>>

\* one iteration of "for doc in docs": action = {..}; actions.append(action)
ActionStep ==
  /\ pc = "demo_loop"
  /\ Len(actions) < Len(docs)
  /\ LET doc == docs[Len(actions) + 1]
         action == [_index |-> "demo", _source |-> doc]
     IN actions' = Append(actions, action)
  /\ UNCHANGED <<pc, chunked>>
  /\ UNCHANGED <<vector_store, calls, chat_history, cluster, query, frontend>>

\* bulk(es, actions, refresh=True): raises BulkIndexError when an action
\* failed, the other actions having been carried out
Bulk ==
  /\ pc = "demo_loop"
  /\ Len(actions) = Len(docs)
  /\ \E ok \in BOOLEAN :
       LET r == bulk_items(es, actions, 1)
           returns == ok /\ r.errors = 0
       IN /\ calls' = Append(calls, Call("bulk", 0, actions, returns))
          /\ es' = IF ok THEN r.es ELSE es
          /\ status' = IF ok THEN 200 ELSE 503
          /\ pc' = IF returns THEN "demo_done" ELSE "failed"
  /\ UNCHANGED chunked
  /\ UNCHANGED <<vector_store, chat_history, SHOULD_DELETE_INDEX, query, frontend,
                 demo>>

NextDemo ==
  \/ CreateDemoVector
  \/ CreateDemoTitlePrice
  \/ IndexDoc
  \/ BindDocs
  \/ ActionStep
  \/ Bulk

SpecDemo == InitDemo /\ [][NextDemo]_vars

\* ------------------------------------------------------------------ C23
\* C23: the loop of the bulk example makes one action per document, in the
\* order of docs, each with _index "demo" and the document as _source; when
\* bulk is called the actions list is as long as docs and it is the list
\* given to bulk.
C23_OneActionPerDocument ==
  pc \in {"demo_loop", "demo_done"} \/ (pc = "failed" /\ LastCall.op = "bulk") =>
    /\ Len(actions) <= Len(docs)
    /\ \A i \in 1..Len(actions) :
         /\ DOMAIN actions[i] = {"_index", "_source"}
         /\ actions[i]._index = "demo"
         /\ actions[i]._source = docs[i]
    /\ LastCall.op = "bulk" =>
         /\ Len(actions) = Len(docs)
         /\ LastCall.arg = actions

\* bulk returned for the three documents of the example, which are in the
\* index in the order of docs
C23_Witness ==
  /\ pc = "demo_done" /\ docs = ExampleDocs
  /\ LastCall.op = "bulk" /\ LastCall.ok /\ Len(LastCall.arg) = 3
  /\ es.mappings = DemoMapping /\ es.docs = ExampleDocs

\* ------------------------------------------------------------------ C24
\* C24 as stated: every document of the examples that is inserted into
\* "demo", by es.index or by bulk, has a text vector of dims (8) values.
C24_ExampleVectorsHaveDims ==
  \A c \in 1..Len(calls) :
    /\ calls[c].op = "index" =>
         \A i \in 1..Len(calls[c].arg) : Len(calls[c].arg[i].text) = dims
    /\ (calls[c].op = "bulk" /\ docs = ExampleDocs) =>
         \A i \in 1..Len(calls[c].arg) :
           Len(calls[c].arg[i]._source.text) = dims

\* ------------------------------------------------------------------
\* The chatbot notebook with its clean-up cells: after the ingest come the
\* ask() calls, chat_history.clear() and the cell that deletes the indices.

\* datasets of one or two records with some text
TinyDatasets ==
  {<<Record(1, <<"a">>)>>, <<Record(1, <<"a">>), Record(2, <<"a">>)>>}

LoadTiny == LoadFrom(TinyDatasets)

\* chat_history.clear() has been called
Cleared == \E i \in 1..Len(calls) : calls[i].op = "clear"

\* mutant of ClearHistory: the call is made and the messages stay
ClearHistory_keep ==
  /\ pc = "chat"
  /\ ~Cleared
  /\ \E ok \in BOOLEAN :
       /\ calls' = Append(calls, Call("clear", Asked, <<>>, ok))
       /\ chat_history' = chat_history
       /\ pc' = IF ok THEN "chat" ELSE "failed"
  /\ UNCHANGED chunked
  /\ UNCHANGED <<vector_store, cluster, query, frontend, demo>>

\* chat_history.clear(): the messages of the session are deleted from the
\* history index; the call is filed under the number of ask() calls before it
ClearHistory ==
  /\ pc = "chat"
  /\ ~Cleared
  /\ \E ok \in BOOLEAN :
       /\ calls' = Append(calls, Call("clear", Asked, <<>>, ok))
       /\ chat_history' = IF ok THEN <<>> ELSE chat_history
       /\ pc' = IF ok THEN "chat" ELSE "failed"
  /\ UNCHANGED chunked
  /\ UNCHANGED <<vector_store, cluster, query, frontend, demo>>

\* vector_store.client.indices.delete(index='workplace-docs') and then
\* (index='workplace-docs-chat-history'), filed as 1 and 2; failing is the
\* call that raises (0: none), and the second call is not made when the
\* first raised
DeleteIndices ==
  /\ pc = "chat"
  /\ \E failing \in 0..2 :
       LET made == IF failing = 0 THEN 2 ELSE failing
       IN /\ calls' = calls \o [i \in 1..made |->
                                  Call("delete_index", i, <<>>, i # failing)]
          /\ vector_store' = IF failing = 1 THEN vector_store ELSE <<>>
          /\ chat_history' = IF failing = 0 THEN <<>> ELSE chat_history
          /\ pc' = IF failing = 0 THEN "cleaned" ELSE "failed"
  /\ UNCHANGED chunked
  /\ UNCHANGED <<cluster, query, frontend, demo>>

NextCleanup ==
  \/ LoadTiny \/ LoopStep \/ MakeSplitterChatbot \/ CreateDocuments
  \/ FromDocuments \/ Ask \/ ClearHistory \/ DeleteIndices

SpecCleanup == Init /\ [][NextCleanup]_vars

\* ------------------------------------------------------------------ C27
\* the messages the ask() calls c + 1 .. k added to the history
RECURSIVE PairsFrom(_, _)
PairsFrom(c, k) == IF k <= c THEN <<>> ELSE PairsFrom(c, k - 1) \o AddedBy(k)

\* the number of ask() calls before the clear() that went through, 0 when
\* there was none
ClearedAt ==
  IF \E i \in 1..Len(calls) : calls[i].op = "clear" /\ calls[i].ok
  THEN SelectSeq(calls, LAMBDA c : c.op = "clear")[1].req
  ELSE 0

\* C27: once chat_history.clear() has returned the history is empty, and
\* the chain of a later ask() is given only what was said since: nothing
\* for the ask() that follows the clear(). The indices are deleted after
\* the ingest and the chat calls, workplace-docs first, and no chat call
\* comes after.
C27_ClearThenAskThenDelete ==
  /\ (calls # <<>> /\ LastCall.op = "clear" /\ LastCall.ok) => chat_history = <<>>
  /\ \A i \in 1..Len(calls) :
       /\ (calls[i].op = "chat" /\ calls[i].req > ClearedAt) =>
            /\ calls[i].arg = PairsFrom(ClearedAt, calls[i].req - 1)
            /\ (Cleared /\ calls[i].req = ClearedAt + 1) => calls[i].arg = <<>>
       /\ (calls[i].op = "chat" /\ calls[i].req <= ClearedAt) =>
            calls[i].arg = PairsUpTo(calls[i].req - 1)
       /\ calls[i].op = "delete_index" =>
            /\ \A j \in 1..Len(calls) :
                 /\ j < i => calls[j].op # "delete_index" \/ calls[j].req < calls[i].req
                 /\ j > i => calls[j].op = "delete_index"
            /\ \E j \in 1..(i - 1) : calls[j].op = "from_documents" /\ calls[j].ok
  /\ pc = "chat" => chat_history = PairsFrom(ClearedAt, Asked)

\* one ask(), clear(), a second ask() whose chain was given no message
\* although the first had added two, and then the indices were deleted
C27_Witness ==
  /\ pc = "cleaned"
  /\ Asked = 2 /\ ClearedAt = 1
  /\ Len(AddedBy(1)) = 2
  /\ \E i \in 1..Len(calls) :
       calls[i].op = "chat" /\ calls[i].req = 2 /\ calls[i].arg = <<>>
  /\ Len(calls) = 12 /\ calls[12].op = "delete_index" /\ calls[12].ok
  /\ chat_history = <<>> /\ vector_store = <<>>
====
